---- MODULE Spec2Model ----
(***************************************************************************)
(* Model of the OCR AutoFill content script (src/extension/content.js).    *)
(*                                                                         *)
(* The script runs on the browser's event loop.  Every action below is one *)
(* task of that loop, run to completion: the click handler, the            *)
(* continuation of startProcess/performOCR after an awaited fetch, body    *)
(* read or delay settles, and each timer callback.  Continuations separated*)
(* only by microtask hops (await of an already settled promise, .finally)  *)
(* belong to the same task.                                                *)
(***************************************************************************)
EXTENDS Integers, Sequences, FiniteSets, TLC

\* ------------------------------------------------------------------ bounds
\* operator triggers accepted in one behaviour
MaxRuns == 2
\* keys of a recognition result / targets of a page that deviate from the
\* base pattern, in the families the fill engine is checked on
MaxOdd == 1

\* --------------------------------------------------------------- constants
RETRY_ATTEMPTS == 3
RETRY_DELAY == 1000
FETCH_TIMEOUT == 30000
BANNER_TTL == 15000
SLIDE_OUT == 300
ALERT_DELAY == 500

NONE == "none"

\* ----------------------------------------------------------------- strings
\* A string is a sequence of one-character strings.
StartsWith(s, p) == Len(s) >= Len(p) /\ SubSeq(s, 1, Len(p)) = p

\* String.prototype.lastIndexOf(c) + 1 (0 when c does not occur)
LastIndexOf1(s, c) ==
    LET hits == {i \in 1..Len(s) : s[i] = c}
    IN  IF hits = {} THEN 0 ELSE CHOOSE i \in hits : \A j \in hits : j <= i

\* s.split('#')[0]
BeforeHash(s) ==
    LET hits == {i \in 1..Len(s) : s[i] = "#"}
    IN  IF hits = {} THEN s
        ELSE SubSeq(s, 1, (CHOOSE i \in hits : \A j \in hits : i <= j) - 1)

IsWhite(c) == c = " "

\* String.prototype.trim
RECURSIVE TrimLeft(_)
TrimLeft(s) == IF s # <<>> /\ IsWhite(Head(s)) THEN TrimLeft(Tail(s)) ELSE s

RECURSIVE TrimRight(_)
TrimRight(s) ==
    IF s # <<>> /\ IsWhite(s[Len(s)]) THEN TrimRight(SubSeq(s, 1, Len(s) - 1)) ELSE s

Trim(s) == TrimRight(TrimLeft(s))

HTTP == <<"h", "t", "t", "p">>

\* -------------------------------------------------------------- the config
IMAGE_ID == "ContentPlaceHolder1_Frame5"

\* FIELD_MAPPING, in declaration order (Object.entries order)
FIELD_MAPPING == <<
    <<"first_name", "ContentPlaceHolder1_txtFName">>,
    <<"last_name", "ContentPlaceHolder1_txtLName">>,
    <<"email", "ContentPlaceHolder1_txtEmail">>,
    <<"ssn", "ContentPlaceHolder1_txtSSN">>,
    <<"phone", "ContentPlaceHolder1_txtPhone">>,
    <<"bank_name", "ContentPlaceHolder1_txtBankName">>,
    <<"account_no", "ContentPlaceHolder1_txtAcNo">>,
    <<"loan_amount", "ContentPlaceHolder1_txtLoanAmt">>,
    <<"address", "ContentPlaceHolder1_txtAddress">>,
    <<"city", "ContentPlaceHolder1_txtCity">>,
    <<"state", "ContentPlaceHolder1_txtState">>,
    <<"zip", "ContentPlaceHolder1_txtZip">>,
    <<"dob", "ContentPlaceHolder1_txtDob">>,
    <<"licence_no", "ContentPlaceHolder1_txtLicenceNo">>,
    <<"licence_state", "ContentPlaceHolder1_txtLicenceState">>,
    <<"ip", "ContentPlaceHolder1_txtIP">>
>>

NKeys == Len(FIELD_MAPPING)
KeyAt(i) == FIELD_MAPPING[i][1]
DomIdAt(i) == FIELD_MAPPING[i][2]
Keys == {KeyAt(i) : i \in 1..NKeys}
DomIds == {DomIdAt(i) : i \in 1..NKeys}

\* --------------------------------------------------------------- JS values
\* The values a recognition result can hold under a key: undefined (key
\* absent), null, a number, a string.
Undefined == [t |-> "undefined", n |-> 0, s |-> <<>>]
Null == [t |-> "null", n |-> 0, s |-> <<>>]
Num(k) == [t |-> "number", n |-> k, s |-> <<>>]
Text(str) == [t |-> "string", n |-> 0, s |-> str]

\* ToBoolean
Truthy(v) ==
    CASE v.t = "undefined" -> FALSE
      [] v.t = "null" -> FALSE
      [] v.t = "number" -> v.n # 0
      [] v.t = "string" -> v.s # <<>>

\* An Error object: what it describes and the recognition attempt that raised
\* it (0 outside performOCR).
Err(kind, attempt) == [kind |-> kind, attempt |-> attempt]
NoErr == Err(NONE, 0)

\* ------------------------------------------------------------- the document
\* A target input: whether it is in the document, its value, the on*
\* content attributes and handler properties it carries, its inline style
\* and marker attribute; throwsOn names the step of a write that faults on
\* this element (NONE for a well-behaved input).
Field(exists, throwsOn) ==
    [exists |-> exists, throwsOn |-> throwsOn, value |-> <<>>,
     attrs |-> {"onpaste", "onselectstart"},
     handlers |-> {"onpaste", "onselectstart"},
     bg |-> NONE, border |-> NONE, filled |-> FALSE]

\* One step of a write to a host-page element, as the page observes it.
Op(op, arg) == [op |-> op, arg |-> arg, bubbles |-> FALSE, cancelable |-> FALSE]
EventOp(name) ==
    [op |-> "dispatchEvent", arg |-> name, bubbles |-> TRUE, cancelable |-> TRUE]

\* setFieldValue with a click on the page's save control after the events
SetFieldSteps_Submit == <<
    Op("removeAttribute", "onpaste"),
    Op("removeAttribute", "onselectstart"),
    Op("set", "onpaste"),
    Op("set", "onselectstart"),
    Op("focus", ""),
    Op("set", "value"),
    EventOp("input"),
    EventOp("change"),
    EventOp("keyup"),
    EventOp("blur"),
    Op("click", "submit"),
    Op("set", "style.backgroundColor"),
    Op("set", "style.border"),
    Op("setAttribute", "data-ocr-filled")
>>

\* setFieldValue dispatching the events before it assigns the value
SetFieldSteps_EventsFirst == <<
    Op("removeAttribute", "onpaste"),
    Op("removeAttribute", "onselectstart"),
    Op("set", "onpaste"),
    Op("set", "onselectstart"),
    Op("focus", ""),
    EventOp("input"),
    EventOp("change"),
    EventOp("keyup"),
    EventOp("blur"),
    Op("set", "value"),
    Op("set", "style.backgroundColor"),
    Op("set", "style.border"),
    Op("setAttribute", "data-ocr-filled")
>>

\* setFieldValue's statements, in program order
SetFieldSteps == <<
    Op("removeAttribute", "onpaste"),
    Op("removeAttribute", "onselectstart"),
    Op("set", "onpaste"),
    Op("set", "onselectstart"),
    Op("focus", ""),
    Op("set", "value"),
    EventOp("input"),
    EventOp("change"),
    EventOp("keyup"),
    EventOp("blur"),
    Op("set", "style.backgroundColor"),
    Op("set", "style.border"),
    Op("setAttribute", "data-ocr-filled")
>>

\* setFieldValue's statements with the value appended to the field's value
ApplyStep_Appends(field, step, value) ==
    CASE step.op = "removeAttribute" ->
            [field EXCEPT !.attrs = @ \ {step.arg},
                          !.handlers = IF step.arg \in field.attrs
                                       THEN @ \ {step.arg} ELSE @]
      [] step.op = "set" /\ step.arg \in {"onpaste", "onselectstart"} ->
            [field EXCEPT !.handlers = @ \ {step.arg}]
      [] step.op = "set" /\ step.arg = "value" ->
            [field EXCEPT !.value = @ \o value]
      [] step.op = "set" /\ step.arg = "style.backgroundColor" ->
            [field EXCEPT !.bg = "#e8f5e9"]
      [] step.op = "set" /\ step.arg = "style.border" ->
            [field EXCEPT !.border = "2px solid #4caf50"]
      [] step.op = "setAttribute" ->
            [field EXCEPT !.filled = TRUE]
      [] OTHER -> field

\* The effect of one statement of setFieldValue on the element.
ApplyStep(field, step, value) ==
    CASE step.op = "removeAttribute" ->
            [field EXCEPT !.attrs = @ \ {step.arg},
                          !.handlers = IF step.arg \in field.attrs
                                       THEN @ \ {step.arg} ELSE @]
      [] step.op = "set" /\ step.arg \in {"onpaste", "onselectstart"} ->
            [field EXCEPT !.handlers = @ \ {step.arg}]
      [] step.op = "set" /\ step.arg = "value" ->
            [field EXCEPT !.value = value]
      [] step.op = "set" /\ step.arg = "style.backgroundColor" ->
            [field EXCEPT !.bg = "#e8f5e9"]
      [] step.op = "set" /\ step.arg = "style.border" ->
            [field EXCEPT !.border = "2px solid #4caf50"]
      [] step.op = "setAttribute" ->
            [field EXCEPT !.filled = TRUE]
      [] OTHER -> field

RECURSIVE RunSteps(_, _, _, _)
RunSteps(field, value, steps, done) ==
    IF steps = <<>> THEN [field |-> field, ops |-> done, threw |-> FALSE]
    ELSE IF field.throwsOn = Head(steps).op
         THEN [field |-> field, ops |-> done, threw |-> TRUE]
         ELSE RunSteps(ApplyStep(field, Head(steps), value), value,
                       Tail(steps), Append(done, Head(steps)))

\* setFieldValue(field, value): the element afterwards, the steps performed
\* on it, and whether the write threw.
setFieldValue(field, value) == RunSteps(field, value, SetFieldSteps, <<>>)

\* autofillFields(data): the loop over Object.entries(FIELD_MAPPING).
\* get(key) is data[key]; doc maps a target identifier to its element.
\* attempted lists the keys for which the target was looked up, caught the
\* keys whose write threw (line 266), ops the steps performed on host-page
\* elements, threw the fault that left the function (NONE when it returned
\* filledCount).
OnTarget(id, steps) ==
    [j \in 1..Len(steps) |-> [target |-> id, step |-> steps[j]]]

\* one console call: its level, its text and the key, identifier or count
\* interpolated into it
Log(level, text, arg, n) == [level |-> level, text |-> text, arg |-> arg, n |-> n]

FillStart(doc) ==
    [doc |-> doc, filledCount |-> 0, filledFields |-> <<>>,
     failedFields |-> <<>>, attempted |-> <<>>, caught |-> <<>>,
     ops |-> <<>>, threw |-> NONE,
     log |-> <<Log("log", "Autofilling fields...", <<>>, 0)>>]

\* the loop body with a missing target counted as filled
FillEntry_CountsMissing(acc, i, value) ==
    IF ~Truthy(value) THEN acc
    ELSE IF value.t # "string"
    THEN [acc EXCEPT !.threw = "TypeError: value.trim is not a function"]
    ELSE IF Trim(value.s) = <<>> THEN acc
    ELSE LET field == acc.doc[DomIdAt(i)]
             seen == [acc EXCEPT !.attempted = Append(@, KeyAt(i))]
         IN  IF field.exists
             THEN LET w == setFieldValue(field, value.s)
                      wrote == [seen EXCEPT !.doc[DomIdAt(i)] = w.field,
                                            !.ops = @ \o OnTarget(DomIdAt(i), w.ops)]
                  IN  IF w.threw
                      THEN [wrote EXCEPT
                              !.failedFields = Append(@, KeyAt(i)),
                              !.caught = Append(@, KeyAt(i)),
                              !.log = Append(@, Log("error", "Failed to fill",
                                                    <<KeyAt(i)>>, 0))]
                      ELSE [wrote EXCEPT
                              !.filledCount = @ + 1,
                              !.filledFields = Append(@, <<KeyAt(i), value.s>>),
                              !.log = Append(@, Log("log", "Filled",
                                                    <<KeyAt(i)>>, 0))]
             ELSE [seen EXCEPT
                     !.filledCount = @ + 1,
                     !.failedFields = Append(@, KeyAt(i)),
                     !.log = Append(@, Log("warn", "Field not found",
                                           <<DomIdAt(i)>>, 0))]

\* the loop body testing `if (value)` only, without value.trim()
FillEntry_NoTrim(acc, i, value) ==
    IF ~Truthy(value) THEN acc
    ELSE IF value.t # "string"
    THEN [acc EXCEPT !.threw = "TypeError: value.trim is not a function"]
    ELSE LET field == acc.doc[DomIdAt(i)]
             seen == [acc EXCEPT !.attempted = Append(@, KeyAt(i))]
         IN  IF field.exists
             THEN LET w == setFieldValue(field, value.s)
                      wrote == [seen EXCEPT !.doc[DomIdAt(i)] = w.field,
                                            !.ops = @ \o OnTarget(DomIdAt(i), w.ops)]
                  IN  IF w.threw
                      THEN [wrote EXCEPT
                              !.failedFields = Append(@, KeyAt(i)),
                              !.caught = Append(@, KeyAt(i)),
                              !.log = Append(@, Log("error", "Failed to fill",
                                                    <<KeyAt(i)>>, 0))]
                      ELSE [wrote EXCEPT
                              !.filledCount = @ + 1,
                              !.filledFields = Append(@, <<KeyAt(i), value.s>>),
                              !.log = Append(@, Log("log", "Filled",
                                                    <<KeyAt(i)>>, 0))]
             ELSE [seen EXCEPT
                     !.failedFields = Append(@, KeyAt(i)),
                     !.log = Append(@, Log("warn", "Field not found",
                                           <<DomIdAt(i)>>, 0))]

\* the loop body that only warns of a missing target
FillEntry_DropsMissing(acc, i, value) ==
    IF ~Truthy(value) THEN acc
    ELSE IF value.t # "string"
    THEN [acc EXCEPT !.threw = "TypeError: value.trim is not a function"]
    ELSE IF Trim(value.s) = <<>> THEN acc
    ELSE LET field == acc.doc[DomIdAt(i)]
             seen == [acc EXCEPT !.attempted = Append(@, KeyAt(i))]
         IN  IF field.exists
             THEN LET w == setFieldValue(field, value.s)
                      wrote == [seen EXCEPT !.doc[DomIdAt(i)] = w.field,
                                            !.ops = @ \o OnTarget(DomIdAt(i), w.ops)]
                  IN  IF w.threw
                      THEN [wrote EXCEPT
                              !.failedFields = Append(@, KeyAt(i)),
                              !.caught = Append(@, KeyAt(i)),
                              !.log = Append(@, Log("error", "Failed to fill",
                                                    <<KeyAt(i)>>, 0))]
                      ELSE [wrote EXCEPT
                              !.filledCount = @ + 1,
                              !.filledFields = Append(@, <<KeyAt(i), value.s>>),
                              !.log = Append(@, Log("log", "Filled",
                                                    <<KeyAt(i)>>, 0))]
             ELSE [seen EXCEPT
                     !.log = Append(@, Log("warn", "Field not found",
                                           <<DomIdAt(i)>>, 0))]

FillEntry(acc, i, value) ==
    IF ~Truthy(value) THEN acc
    ELSE IF value.t # "string"
    THEN [acc EXCEPT !.threw = "TypeError: value.trim is not a function"]
    ELSE IF Trim(value.s) = <<>> THEN acc
    ELSE LET field == acc.doc[DomIdAt(i)]
             seen == [acc EXCEPT !.attempted = Append(@, KeyAt(i))]
         IN  IF field.exists
             THEN LET w == setFieldValue(field, value.s)
                      wrote == [seen EXCEPT !.doc[DomIdAt(i)] = w.field,
                                            !.ops = @ \o OnTarget(DomIdAt(i), w.ops)]
                  IN  IF w.threw
                      THEN [wrote EXCEPT
                              !.failedFields = Append(@, KeyAt(i)),
                              !.caught = Append(@, KeyAt(i)),
                              !.log = Append(@, Log("error", "Failed to fill",
                                                    <<KeyAt(i)>>, 0))]
                      ELSE [wrote EXCEPT
                              !.filledCount = @ + 1,
                              !.filledFields = Append(@, <<KeyAt(i), value.s>>),
                              !.log = Append(@, Log("log", "Filled",
                                                    <<KeyAt(i)>>, 0))]
             ELSE [seen EXCEPT
                     !.failedFields = Append(@, KeyAt(i)),
                     !.log = Append(@, Log("warn", "Field not found",
                                           <<DomIdAt(i)>>, 0))]

RECURSIVE FillFrom(_, _, _)
FillFrom(acc, i, get) ==
    IF i > NKeys \/ acc.threw # NONE THEN acc
    ELSE FillFrom(FillEntry(acc, i, get[KeyAt(i)]), i + 1, get)

\* lines 277-278: what is logged once the loop has ended
Summary(acc) ==
    <<Log("log", "=== AUTOFILL SUMMARY ===", <<>>, 0),
      Log("log", "Filled: n/16 fields", <<>>, acc.filledCount)>>

autofillFields(get, doc) ==
    LET acc == FillFrom(FillStart(doc), 1, get)
    IN  IF acc.threw # NONE THEN acc
        ELSE [acc EXCEPT !.log = @ \o Summary(acc)]

\* ------------------------------------------------------ the image locator
\* What the page offers the locator: the element with id IMAGE_ID (tag
\* "absent" when there is none) and, for each fallback selector in order,
\* the src of the first element it matches (found FALSE when none matches).
Elem(tag, src) == [tag |-> tag, src |-> src]
NoMatch == [found |-> FALSE, src |-> <<>>]
Match(src) == [found |-> TRUE, src |-> src]

fallbackSelectors ==
    <<"img[src*=.jpg]", "img[src*=.jpeg]", "img[src*=.png]", "[id*=Frame5] img">>

NullUrl == [isNull |-> TRUE, url |-> <<>>]
Url(u) == [isNull |-> FALSE, url |-> u]

\* window.location.href.substring(0, href.lastIndexOf('/') + 1)
basePath(href) == SubSeq(href, 1, LastIndexOf1(href, "/"))

\* lines 155-165: relative to absolute
toAbsolute(src, href, origin) ==
    IF StartsWith(src, HTTP) THEN src
    ELSE IF StartsWith(src, <<"/">>) THEN origin \o src
    ELSE IF StartsWith(src, <<".", "/">>)
         THEN basePath(href) \o SubSeq(src, 3, Len(src))
         ELSE basePath(href) \o src

\* the loop taking the last selector's match that has an address
firstFallback_LastMatch(matches, i) ==
    LET has == {j \in i..Len(matches) : matches[j].found /\ matches[j].src # <<>>}
    IN  IF has = {} THEN NullUrl
        ELSE Url(BeforeHash(matches[CHOOSE j \in has : \A k \in has : k <= j].src))

\* lines 182-192: the loop over the fallback selectors, from selector i on
RECURSIVE firstFallback(_, _)
firstFallback(matches, i) ==
    IF i > Len(matches) THEN NullUrl
    ELSE IF matches[i].found /\ matches[i].src # <<>>
         THEN Url(BeforeHash(matches[i].src))
         ELSE firstFallback(matches, i + 1)

extractImage(pg) ==
    IF pg.desig.tag = "IMG" /\ pg.desig.src # <<>>
    THEN Url(BeforeHash(toAbsolute(pg.desig.src, pg.href, pg.origin)))
    ELSE firstFallback(pg.fallback, 1)

\* ------------------------------------------------------------------- state
VARIABLES
    page,      \* what the host page offers the image locator
    doc,       \* the host page's target inputs, by identifier
    btn,       \* the trigger button: whether it is in the document
               \* (present) and its disabled property
    runs,      \* one record per call of startProcess, in call order
    timers,    \* the armed timers (setTimeout not yet fired or cleared), in
               \* the order they were armed
    notes,     \* the calls of showNotification, in call order
    banners,   \* the notification banners in the document (indices of notes)
    alerts,    \* the notifications whose alert() has been raised
    hostOps,   \* every step performed on a host-page element so far
    fillIn,    \* the fill engine checked alone: its input
    fillOut,   \* the fill engine checked alone: its result
    imgOut,    \* the image locator checked alone: its result
    clicks     \* the click events dispatched to the button's onclick

vars == <<page, doc, btn, runs, timers, notes, banners, alerts,
          hostOps, fillIn, fillOut, imgOut, clicks>>

\* The part of the state the script's functions read and write.
World ==
    [doc |-> doc, btn |-> btn, runs |-> runs, timers |-> timers,
     notes |-> notes, banners |-> banners, alerts |-> alerts,
     hostOps |-> hostOps]

Becomes(w) ==
    /\ doc' = w.doc
    /\ btn' = w.btn
    /\ runs' = w.runs
    /\ timers' = w.timers
    /\ notes' = w.notes
    /\ banners' = w.banners
    /\ alerts' = w.alerts
    /\ hostOps' = w.hostOps

Timer(kind, run, n, ms) == [kind |-> kind, run |-> run, n |-> n, ms |-> ms]

\* setTimeout and clearTimeout on the list of armed timers
setTimeout(w, t) == [w EXCEPT !.timers = Append(@, t)]
clearTimeout(w, t) == [w EXCEPT !.timers = SelectSeq(@, LAMBDA u : u # t)]

\* The timer at position i may fire: a timer waits for every timer armed
\* before it whose timeout is not longer than its own (the ordering the
\* browser's timer task source guarantees).
CanFire(i) ==
    /\ i \in 1..Len(timers)
    /\ \A j \in 1..(i - 1) : timers[j].ms > timers[i].ms

\* the world once the timer at position i has been taken off the list
Fired(i) ==
    [World EXCEPT !.timers = SubSeq(@, 1, i - 1) \o SubSeq(@, i + 1, Len(@))]

\* A call of startProcess: where it is suspended (pc), the closure
\* variables of performOCR (imageUrl, attempts, inflight: the attempt whose
\* AbortController guards the request in flight), and what it did;
\* abortedBy is the run and attempt of the timer whose callback last
\* aborted a request of this call, waited the retry delays that elapsed.
NewRun ==
    [pc |-> "start", imageUrl |-> NullUrl, attempts |-> 0, inflight |-> 0,
     requests |-> 0, lastErr |-> NoErr, surfaced |-> NoErr,
     fill |-> NONE, filledCount |-> 0, failedFields |-> <<>>,
     attempted |-> <<>>, caught |-> <<>>, settled |-> "pending",
     abortedBy |-> <<0, 0>>, waited |-> 0]

\* What is kept of a settled call once the next call starts, and of its
\* notification: the records are observations, not state of the script.
Archived(run) ==
    IF run.pc \in {"done", "archived"}
    THEN [NewRun EXCEPT !.pc = "archived", !.settled = run.settled]
    ELSE run

ArchivedNote(w, note) ==
    IF w.runs[note.run].pc \in {"done", "archived"}
    THEN [note EXCEPT !.n = 0, !.err = NoErr]
    ELSE note

Archive(w) ==
    [w EXCEPT !.runs = [r \in 1..Len(w.runs) |-> Archived(w.runs[r])],
              !.notes = [i \in 1..Len(w.notes) |-> ArchivedNote(w, w.notes[i])]]

Executing(r) == runs[r].pc \in {"fetch", "body", "delay"}

\* ------------------------------------------------------- showNotification
\* lines 317-401: the existing banner is removed, a new one appended, its
\* auto-dismiss timer armed and, for type success, the alert timer armed.
showNotification(w, r, type, msg, n, err) ==
    LET id == Len(w.notes) + 1
        existing == IF w.banners = {} THEN {}
                    ELSE {CHOOSE b \in w.banners : \A c \in w.banners : b <= c}
        shown == [w EXCEPT
                    !.notes = Append(@, [run |-> r, type |-> type, msg |-> msg,
                                         n |-> n, err |-> err]),
                    !.banners = (@ \ existing) \cup {id}]
        armed == setTimeout(shown, Timer("dismiss", r, id, BANNER_TTL))
    IN  IF type = "success"
        THEN setTimeout(armed, Timer("alert", r, id, ALERT_DELAY))
        ELSE armed

\* ---------------------------------------------------------- btn.onclick
\* onclick that leaves the button enabled
DisabledWhileRunning_NotSet == FALSE

\* line 88: the button's disabled property for the time of the run
DisabledWhileRunning == TRUE

\* lines 90-93: startProcess() settled; .finally re-enables the button
finally(w, r, how) ==
    [w EXCEPT !.runs[r].pc = "done",
              !.runs[r].settled = how,
              !.btn.disabled = FALSE]

\* ---------------------------------------------------------- startProcess
\* startProcess without its catch: the fault rejects the returned promise
startProcessCatch_Rethrow(w, r, err) == finally(w, r, "rejected")

\* lines 138-141: the catch at the orchestrator boundary
startProcessCatch(w, r, err) ==
    finally(showNotification(w, r, "error", "Error: ", 0, err), r, "resolved")

\* the fill stage testing filledCount >= 0
fillStage_AlwaysSuccess(w, r, data) ==
    LET out == autofillFields(data.get, w.doc)
        w1 == [w EXCEPT !.doc = out.doc,
                        !.hostOps = @ \cup {out.ops[i] : i \in 1..Len(out.ops)},
                        !.runs[r].fill = IF out.threw = NONE THEN "returned"
                                         ELSE "threw",
                        !.runs[r].filledCount = out.filledCount,
                        !.runs[r].failedFields = out.failedFields,
                        !.runs[r].attempted = out.attempted,
                        !.runs[r].caught = out.caught]
    IN  IF out.threw # NONE
        THEN startProcessCatch(w1, r, Err(out.threw, 0))
        ELSE finally(showNotification(w1, r, "success", "fields auto-filled",
                                      out.filledCount, NoErr), r, "resolved")

\* lines 125-136: the fill stage and its notification
fillStage(w, r, data) ==
    LET out == autofillFields(data.get, w.doc)
        w1 == [w EXCEPT !.doc = out.doc,
                        !.hostOps = @ \cup {out.ops[i] : i \in 1..Len(out.ops)},
                        !.runs[r].fill = IF out.threw = NONE THEN "returned"
                                         ELSE "threw",
                        !.runs[r].filledCount = out.filledCount,
                        !.runs[r].failedFields = out.failedFields,
                        !.runs[r].attempted = out.attempted,
                        !.runs[r].caught = out.caught]
    IN  IF out.threw # NONE
        THEN startProcessCatch(w1, r, Err(out.threw, 0))
        ELSE IF out.filledCount > 0
        THEN finally(showNotification(w1, r, "success", "fields auto-filled",
                                      out.filledCount, NoErr), r, "resolved")
        ELSE finally(showNotification(w1, r, "warning", "No fields were filled",
                                      0, NoErr), r, "resolved")

\* lines 116-121: performOCR returned data
afterOCR(w, r, data) ==
    IF data.kind = "falsy"
    THEN finally(showNotification(w, r, "error", "OCR processing failed",
                                  0, NoErr), r, "resolved")
    ELSE fillStage(w, r, data)

\* ------------------------------------------------------------- performOCR
\* lines 203-215: a new AbortController, its timeout armed, the request sent
issueRequest(w, r) ==
    LET a == w.runs[r].attempts + 1
    IN  [setTimeout(w, Timer("abort", r, a, FETCH_TIMEOUT)) EXCEPT
                  !.runs[r].requests = @ + 1,
                  !.runs[r].inflight = a,
                  !.runs[r].pc = "fetch"]

\* the body performOCR returns when its loop ends (line 243: null)
NullBody == [kind |-> "falsy", error |-> Undefined, get |-> [key \in Keys |-> Undefined]]

\* lines 201 and 243: the loop test; past the ceiling performOCR returns null
whileLoop(w, r) ==
    IF w.runs[r].attempts < RETRY_ATTEMPTS THEN issueRequest(w, r)
    ELSE afterOCR(w, r, NullBody)

\* the catch testing attempts <= RETRY_ATTEMPTS
performOCRCatch_OffByOne(w, r, err) ==
    LET n == w.runs[r].attempts + 1
        w1 == [w EXCEPT !.runs[r].attempts = n,
                        !.runs[r].lastErr = err,
                        !.runs[r].inflight = 0]
    IN  IF n <= RETRY_ATTEMPTS
        THEN setTimeout([w1 EXCEPT !.runs[r].pc = "delay"],
                        Timer("delay", r, n, RETRY_DELAY * n))
        ELSE startProcessCatch([w1 EXCEPT !.runs[r].surfaced = err], r, err)

\* the catch without attempts++
performOCRCatch_NoIncrement(w, r, err) ==
    LET n == w.runs[r].attempts
        w1 == [w EXCEPT !.runs[r].lastErr = err,
                        !.runs[r].inflight = 0]
    IN  IF n < RETRY_ATTEMPTS
        THEN setTimeout([w1 EXCEPT !.runs[r].pc = "delay"],
                        Timer("delay", r, n, RETRY_DELAY * n))
        ELSE startProcessCatch([w1 EXCEPT !.runs[r].surfaced = err], r, err)

\* the catch going on to the next attempt without the delay
performOCRCatch_NoWait(w, r, err) ==
    LET n == w.runs[r].attempts + 1
        w1 == [w EXCEPT !.runs[r].attempts = n,
                        !.runs[r].lastErr = err,
                        !.runs[r].inflight = 0]
    IN  IF n < RETRY_ATTEMPTS
        THEN issueRequest(w1, r)
        ELSE startProcessCatch([w1 EXCEPT !.runs[r].surfaced = err], r, err)

\* the catch waiting RETRY_DELAY after every failure
performOCRCatch_FixedDelay(w, r, err) ==
    LET n == w.runs[r].attempts + 1
        w1 == [w EXCEPT !.runs[r].attempts = n,
                        !.runs[r].lastErr = err,
                        !.runs[r].inflight = 0]
    IN  IF n < RETRY_ATTEMPTS
        THEN setTimeout([w1 EXCEPT !.runs[r].pc = "delay"],
                        Timer("delay", r, n, RETRY_DELAY))
        ELSE startProcessCatch([w1 EXCEPT !.runs[r].surfaced = err], r, err)

\* lines 231-240: the catch of one attempt
performOCRCatch(w, r, err) ==
    LET n == w.runs[r].attempts + 1
        w1 == [w EXCEPT !.runs[r].attempts = n,
                        !.runs[r].lastErr = err,
                        !.runs[r].inflight = 0]
    IN  IF n < RETRY_ATTEMPTS
        THEN setTimeout([w1 EXCEPT !.runs[r].pc = "delay"],
                        Timer("delay", r, n, RETRY_DELAY * n))
        ELSE startProcessCatch([w1 EXCEPT !.runs[r].surfaced = err], r, err)

\* startProcess locating the image on the first call only and using the
\* designated image's address on later calls
startProcess_CachedImage(w, r, pg) ==
    LET imageUrl == IF r > 1
                    THEN Url(<<"h","t","t","p",":","/","/","o","/","d","/","7">>)
                    ELSE extractImage(pg)
    IN  IF imageUrl.isNull \/ imageUrl.url = <<>>
        THEN finally(showNotification(w, r, "error", "No document image found",
                                      0, NoErr), r, "resolved")
        ELSE whileLoop([w EXCEPT !.runs[r].imageUrl = imageUrl], r)

\* startProcess without the return after the no-image notification
startProcess_NoReturn(w, r, pg) ==
    LET imageUrl == extractImage(pg)
    IN  IF imageUrl.isNull \/ imageUrl.url = <<>>
        THEN whileLoop(showNotification(w, r, "error", "No document image found",
                                        0, NoErr), r)
        ELSE whileLoop([w EXCEPT !.runs[r].imageUrl = imageUrl], r)

\* lines 101-116: startProcess up to its first suspension
startProcess(w, r, pg) ==
    LET imageUrl == extractImage(pg)
    IN  IF imageUrl.isNull \/ imageUrl.url = <<>>
        THEN finally(showNotification(w, r, "error", "No document image found",
                                      0, NoErr), r, "resolved")
        ELSE whileLoop([w EXCEPT !.runs[r].imageUrl = imageUrl], r)

\* a response with a non-success status ends the run at once
onResponse_StatusFatal(w, r, ok) ==
    LET a == w.runs[r].inflight
        w1 == clearTimeout(w, Timer("abort", r, a, FETCH_TIMEOUT))
        err == Err("HTTP status", a)
    IN  IF ok
        THEN [w1 EXCEPT !.runs[r].pc = "body"]
        ELSE startProcessCatch([w1 EXCEPT !.runs[r].lastErr = err,
                                          !.runs[r].surfaced = err,
                                          !.runs[r].inflight = 0], r, err)

\* lines 217-223: the response arrived; the timeout is cleared, a
\* non-success status is thrown, otherwise the body is read
onResponse(w, r, ok) ==
    LET a == w.runs[r].inflight
        w1 == clearTimeout(w, Timer("abort", r, a, FETCH_TIMEOUT))
    IN  IF ok
        THEN [w1 EXCEPT !.runs[r].pc = "body"]
        ELSE performOCRCatch(w1, r, Err("HTTP status", a))

\* the request that is in flight when timer t fires, under one controller
\* shared by all attempts and runs
abort_SharedController(w, t) ==
    LET busy == {r \in 1..Len(w.runs) : w.runs[r].pc \in {"fetch", "body"}}
    IN  IF busy = {} THEN w
        ELSE LET r == CHOOSE r \in busy : TRUE
             IN  performOCRCatch([w EXCEPT !.runs[r].abortedBy = <<t.run, t.n>>],
                                 r, Err("AbortError", w.runs[r].inflight))

\* lines 203-204: the callback of timer t calls abort() on the controller
\* created in attempt t.n of run t.run; the fetch started with that
\* controller's signal rejects if it has not settled, nothing else happens
abort(w, t) ==
    IF w.runs[t.run].pc \in {"fetch", "body"} /\ w.runs[t.run].inflight = t.n
    THEN performOCRCatch([w EXCEPT !.runs[t.run].abortedBy = <<t.run, t.n>>],
                         t.run, Err("AbortError", w.runs[t.run].inflight))
    ELSE w

\* lines 223-229: the parsed body of a response with a success status.
\* A body is JSON: an object (get, error), null, or a primitive.
onBody(w, r, data) ==
    LET a == w.runs[r].inflight
    IN  IF data.kind = "null"
        THEN performOCRCatch(w, r, Err("TypeError: data is null", a))
        ELSE IF Truthy(data.error)
        THEN performOCRCatch(w, r, Err("data.error", a))
        ELSE afterOCR([w EXCEPT !.runs[r].inflight = 0], r, data)

\* ------------------------------------------------ what the environment offers
Body(kind, error, get) == [kind |-> kind, error |-> error, get |-> get]

\* the first k keys of the mapping hold v, the others are absent
Prefix(k, v) ==
    [key \in Keys |->
        IF \E i \in 1..k : KeyAt(i) = key THEN v ELSE Undefined]

AllOk == [id \in DomIds |-> Field(TRUE, NONE)]

A == <<"a">>
Blank == <<" ">>

\* values under a key that differ from the base pattern
OddValues ==
    {Undefined, Null, Num(7), Text(<<>>), Text(Blank), Text(<<" ", "a", " ">>),
     Text(A)}

\* targets that differ from a present, well-behaved input
OddFields == {Field(FALSE, NONE), Field(TRUE, "focus"), Field(TRUE, "dispatchEvent")}

\* lengths of the populated prefix in the base patterns
PrefixLens == {0, 5, NKeys}

FillInput(get, d) == [get |-> get, doc |-> d]

\* one departure from the base pattern: none, a value under one key, or
\* one target input
Oddities ==
    {[kind |-> "none", at |-> "", v |-> Undefined, f |-> Field(TRUE, NONE)]}
    \cup {[kind |-> "value", at |-> k, v |-> v, f |-> Field(TRUE, NONE)] :
              k \in Keys, v \in OddValues}
    \cup {[kind |-> "field", at |-> id, v |-> Undefined, f |-> f] :
              id \in DomIds, f \in OddFields}

OneOdd(inp, o) ==
    CASE o.kind = "value" -> FillInput([inp.get EXCEPT ![o.at] = o.v], inp.doc)
      [] o.kind = "field" -> FillInput(inp.get, [inp.doc EXCEPT ![o.at] = o.f])
      [] OTHER -> inp

\* the base pattern with the departures odd[1], ..., odd[m] applied in turn
RECURSIVE FillInputs(_, _, _)
FillInputs(k, odd, m) ==
    IF m = 0 THEN FillInput(Prefix(k, Text(A)), AllOk)
    ELSE OneOdd(FillInputs(k, odd, m - 1), odd[m])

\* the response bodies the recognition service returns in the pipeline model
Bodies ==
    {Body("object", Undefined, Prefix(5, Text(A))),
     Body("object", Undefined, Prefix(NKeys, Text(Blank))),
     Body("object", Undefined, [Prefix(5, Text(A)) EXCEPT !["ssn"] = Num(7)]),
     Body("object", Text(<<"e">>), Prefix(NKeys, Text(A))),
     Body("null", Undefined, Prefix(0, Undefined)),
     Body("falsy", Undefined, Prefix(0, Undefined))}

\* the target inputs of the pages in the pipeline model
Docs ==
    {[AllOk EXCEPT ![DomIdAt(2)] = Field(FALSE, NONE),
                   ![DomIdAt(3)] = Field(TRUE, "focus")]}

HREF == <<"h","t","t","p",":","/","/","o","/","d","/","p">>
ORIGIN == <<"h","t","t","p",":","/","/","o">>
IMG_ABS == <<"h","t","t","p",":","/","/","o","/","d","/","7","#","t">>

Page(desig, fallback) ==
    [desig |-> desig, fallback |-> fallback, href |-> HREF, origin |-> ORIGIN]

NoFallback == [i \in 1..Len(fallbackSelectors) |-> NoMatch]

\* the pages of the pipeline model
Pages ==
    {Page(Elem("absent", <<>>), NoFallback),
     Page(Elem("IMG", IMG_ABS), NoFallback)}

\* ------------------------------------------------------------------- init
\* the page as the script finds it when it is loaded
Loaded(d) ==
    [doc |-> d, btn |-> [disabled |-> FALSE, present |-> FALSE],
     runs |-> <<>>, timers |-> <<>>, notes |-> <<>>, banners |-> {},
     alerts |-> {}, hostOps |-> {}]

\* lines 49-98: the button is created and appended unless it is there
addOCRButton(w) ==
    IF w.btn.present THEN w
    ELSE [w EXCEPT !.btn = [disabled |-> FALSE, present |-> TRUE]]

\* init that starts a run by itself
init_AutoRun(w, pg) ==
    startProcess([addOCRButton(w) EXCEPT !.runs = Append(@, NewRun)], 1, pg)

\* lines 38-46: init adds the button and waits for the click
init(w, pg) == addOCRButton(w)

Is(w) ==
    /\ doc = w.doc
    /\ btn = w.btn
    /\ runs = w.runs
    /\ timers = w.timers
    /\ notes = w.notes
    /\ banners = w.banners
    /\ alerts = w.alerts
    /\ hostOps = w.hostOps

\* ------------------------------------------------------------------ actions
Env == <<page, fillIn, fillOut, imgOut>>
Rest == <<Env, clicks>>

\* a click on the disabled button: the browser dispatches no click event,
\* the handler does not run and nothing changes
ClickIgnored ==
    /\ btn.present
    /\ btn.disabled
    /\ UNCHANGED vars

\* lines 87-94: btn.onclick, through startProcess up to its first suspension
Click ==
    /\ btn.present
    /\ ~btn.disabled
    /\ Len(runs) < MaxRuns
    /\ LET r == Len(runs) + 1
           w == [Archive(World) EXCEPT !.btn.disabled = DisabledWhileRunning,
                                       !.runs = Append(@, NewRun)]
       IN  Becomes(startProcess(w, r, page))
    /\ clicks' = clicks + 1
    /\ UNCHANGED Env

\* fetch rejects: the request failed in transport (line 206 throws)
FetchRejects(r) ==
    /\ runs[r].pc = "fetch"
    /\ Becomes(performOCRCatch(World, r,
                   Err("TypeError: Failed to fetch", runs[r].inflight)))
    /\ UNCHANGED Rest

\* fetch resolves with a response (lines 217-223)
FetchResolves(r, ok) ==
    /\ runs[r].pc = "fetch"
    /\ Becomes(onResponse(World, r, ok))
    /\ UNCHANGED Rest

\* response.json() resolves with the parsed body
BodyResolves(r, data) ==
    /\ runs[r].pc = "body"
    /\ Becomes(onBody(World, r, data))
    /\ UNCHANGED Rest

\* response.json() rejects: the body is no JSON, or the transfer broke
BodyRejects(r) ==
    /\ runs[r].pc = "body"
    /\ Becomes(performOCRCatch(World, r, Err("SyntaxError", runs[r].inflight)))
    /\ UNCHANGED Rest

\* line 204: the timeout of an attempt fires: controller.abort()
AbortFires(i) ==
    /\ CanFire(i) /\ timers[i].kind = "abort"
    /\ Becomes(abort(Fired(i), timers[i]))
    /\ UNCHANGED Rest

\* line 236: the retry delay is over; the loop issues the next attempt
DelayFires(i) ==
    /\ CanFire(i) /\ timers[i].kind = "delay"
    /\ Becomes(whileLoop([Fired(i) EXCEPT !.runs[timers[i].run].waited = @ + 1],
                         timers[i].run))
    /\ UNCHANGED Rest

\* lines 386-393: the auto-dismiss timer of a banner
DismissFires(i) ==
    /\ CanFire(i) /\ timers[i].kind = "dismiss"
    /\ LET t == timers[i]
       IN  IF t.n \in banners
           THEN Becomes(setTimeout(Fired(i), Timer("remove", t.run, t.n, SLIDE_OUT)))
           ELSE Becomes(Fired(i))
    /\ UNCHANGED Rest

\* the inner callback removing whatever element has the banner's id
removeBanner_ById(w, t) == [w EXCEPT !.banners = {}]

\* line 390: `if (banner.parentNode) banner.remove()` on the banner the
\* callback closed over
removeBanner(w, t) == [w EXCEPT !.banners = @ \ {t.n}]

\* lines 389-391: the banner is removed after its slide-out
RemoveFires(i) ==
    /\ CanFire(i) /\ timers[i].kind = "remove"
    /\ Becomes(removeBanner(Fired(i), timers[i]))
    /\ UNCHANGED Rest

\* lines 396-400: the alert of a success notification
AlertFires(i) ==
    /\ CanFire(i) /\ timers[i].kind = "alert"
    /\ Becomes([Fired(i) EXCEPT !.alerts = @ \cup {timers[i].n}])
    /\ UNCHANGED Rest

\* The host page shows another document (or none).  The script reads the
\* page's image only in Click, so the change is placed between runs.
LoadDocument(p) ==
    /\ p # page
    /\ ~btn.disabled
    /\ page' = p
    /\ UNCHANGED <<doc, btn, runs, timers, notes, banners, alerts,
                   hostOps, fillIn, fillOut, imgOut, clicks>>

NoFill ==
    [done |-> FALSE, out |-> FillStart(AllOk),
     twice |-> FALSE, re |-> FillStart(AllOk)]
NoImage == [done |-> FALSE, ref |-> NullUrl]

\* lines 408-409: the script was loaded and init() has returned
Init ==
    /\ page \in Pages
    /\ \E d \in Docs : Is(init(Loaded(d), page))
    /\ fillIn = FillInput(Prefix(0, Undefined), AllOk)
    /\ fillOut = NoFill
    /\ imgOut = NoImage
    /\ clicks = 0

TimerFires ==
    \E i \in 1..Len(timers) :
        AbortFires(i) \/ DelayFires(i) \/ DismissFires(i) \/ RemoveFires(i)
        \/ AlertFires(i)

Next ==
    \/ Click
    \/ ClickIgnored
    \/ \E r \in 1..Len(runs) : FetchRejects(r)
    \/ \E r \in 1..Len(runs), ok \in BOOLEAN : FetchResolves(r, ok)
    \/ \E r \in 1..Len(runs), data \in Bodies : BodyResolves(r, data)
    \/ \E r \in 1..Len(runs) : BodyRejects(r)
    \/ TimerFires
    \/ \E p \in Pages : LoadDocument(p)

Spec == Init /\ [][Next]_vars

\* A partial update of the host page: the form region is replaced by fresh
\* target inputs and, when the update covers the node the button was
\* appended to, the button is removed with it.  The script registers no
\* observer or listener for this, so none of its code runs.
PartialPostback(removesButton) ==
    /\ doc' \in Docs
    /\ btn' = [btn EXCEPT !.present = @ /\ ~removesButton]
    /\ doc' # doc \/ btn' # btn
    /\ UNCHANGED <<page, runs, timers, notes, banners, alerts, hostOps,
                   fillIn, fillOut, imgOut, clicks>>

NextPostback ==
    \/ Next
    \/ \E removesButton \in BOOLEAN : PartialPostback(removesButton)

\* the page with partial updates; timers fire
SpecPostback == Init /\ [][NextPostback]_vars /\ WF_vars(TimerFires)

\* Timers fire; a fetch left alone is settled by its timeout.  Nothing makes
\* the service finish a response body.
FairSpec == Spec /\ WF_vars(TimerFires)

\* ---------------------------------------------- the fill engine on its own
FillInit ==
    /\ \E k \in PrefixLens, odd \in [1..MaxOdd -> Oddities] :
          fillIn = FillInputs(k, odd, MaxOdd)
    /\ fillOut = NoFill
    /\ page \in {Page(Elem("absent", <<>>), NoFallback)}
    /\ doc = fillIn.doc
    /\ btn = [disabled |-> FALSE, present |-> TRUE]
    /\ runs = <<>>
    /\ timers = <<>>
    /\ notes = <<>>
    /\ banners = {}
    /\ alerts = {}
    /\ hostOps = {}
    /\ imgOut = NoImage
    /\ clicks = 0

FillRun ==
    /\ ~fillOut.done
    /\ fillOut' = [fillOut EXCEPT
                      !.done = TRUE,
                      !.out = autofillFields(fillIn.get, fillIn.doc)]
    /\ UNCHANGED <<page, doc, btn, runs, timers, notes, banners,
                   alerts, hostOps, fillIn, imgOut, clicks>>

\* the same result is filled in once more, on the document as the first
\* fill left it
FillAgain ==
    /\ fillOut.done /\ ~fillOut.twice
    /\ fillOut' = [fillOut EXCEPT
                      !.twice = TRUE,
                      !.re = autofillFields(fillIn.get, fillOut.out.doc)]
    /\ UNCHANGED <<page, doc, btn, runs, timers, notes, banners,
                   alerts, hostOps, fillIn, imgOut, clicks>>

FillNext == FillRun \/ FillAgain

SpecFill == FillInit /\ [][FillNext]_vars

\* -------------------------------------------- the image locator on its own
\* the addresses an element's src is drawn from: absolute with scheme http,
\* https and data, root-relative, dot-relative, bare-relative (one of them
\* beginning with the letters http), each without and with a fragment
SrcForms ==
    {<<"h","t","t","p",":","/","/","o","/","d","/","7">>,
     <<"h","t","t","p","s",":","/","/","o","/","7">>,
     <<"d","a","t","a",":","7">>,
     <<"/","d","/","7">>,
     <<".","/","7">>,
     <<"7">>,
     <<"i","/","7">>,
     <<"h","t","t","p","d","/","7">>}

Fragments == {<<>>, <<"#","t">>}

Srcs == {f \o g : f \in SrcForms, g \in Fragments}

Desigs ==
    {Elem("absent", <<>>)}
    \cup {Elem(tag, src) : tag \in {"IMG", "IFRAME"}, src \in Srcs \cup {<<>>}}

FB_ABS == <<"h","t","t","p",":","/","/","o","/","d","/","8","#","t">>
FB_REL == <<"i","/","8","#","t">>

\* what the fallback selectors match: nothing, one of them an element with
\* an address, an element without an address before one with, two
\* elements, an element with a relative address
Fallbacks ==
    {NoFallback}
    \cup {[NoFallback EXCEPT ![j] = Match(IMG_ABS)] : j \in 1..Len(fallbackSelectors)}
    \cup {[NoFallback EXCEPT ![1] = Match(<<>>), ![3] = Match(IMG_ABS)],
          [NoFallback EXCEPT ![2] = Match(FB_ABS), ![4] = Match(IMG_ABS)],
          [NoFallback EXCEPT ![2] = Match(<<>>)],
          [NoFallback EXCEPT ![1] = Match(FB_REL)]}

ImagePages == {Page(d, fb) : d \in Desigs, fb \in Fallbacks}

ImageInit ==
    /\ page \in ImagePages
    /\ imgOut = NoImage
    /\ doc = AllOk
    /\ btn = [disabled |-> FALSE, present |-> TRUE]
    /\ runs = <<>>
    /\ timers = <<>>
    /\ notes = <<>>
    /\ banners = {}
    /\ alerts = {}
    /\ hostOps = {}
    /\ fillIn = FillInput(Prefix(0, Undefined), AllOk)
    /\ fillOut = NoFill
    /\ clicks = 0

ImageRun ==
    /\ ~imgOut.done
    /\ imgOut' = [done |-> TRUE, ref |-> extractImage(page)]
    /\ UNCHANGED <<page, doc, btn, runs, timers, notes, banners,
                   alerts, hostOps, fillIn, fillOut, clicks>>

ImageNext == ImageRun

SpecImage == ImageInit /\ [][ImageNext]_vars

\* ------------------------------------------------------------------ claims
Runs == 1..Len(runs)
Done(r) == runs[r].pc = "done"
NotesOf(r) == {i \in 1..Len(notes) : notes[i].run = r}
TheNote(r) == notes[CHOOSE i \in NotesOf(r) : TRUE]

\* the value is present, non-empty and not whitespace-only
NonBlank(v) == v.t = "string" /\ \E j \in 1..Len(v.s) : v.s[j] # " "

\* the position of a key in FIELD_MAPPING
IndexOf(key) == CHOOSE i \in 1..NKeys : KeyAt(i) = key

\* C1: at most one call of startProcess is executing in any state, and
\* while one is executing the button is disabled, so that a trigger
\* arriving then is dropped.
C1_SingleFlight ==
    /\ Cardinality({r \in Runs : Executing(r)}) <= 1
    /\ (\E r \in Runs : Executing(r)) => btn.disabled

C1_Witness ==
    /\ \E r \in Runs : Executing(r) /\ runs[r].pc = "delay"
    /\ ENABLED ClickIgnored

\* C2: every step the script performs on a host-page element is one of
\* setFieldValue's steps on a mapped target input (interceptor removal,
\* focus, value assignment, the four events, the filled marker); none is
\* a click or submit on a control of the page.
AllowedSteps ==
    {Op("removeAttribute", "onpaste"), Op("removeAttribute", "onselectstart"),
     Op("set", "onpaste"), Op("set", "onselectstart"), Op("focus", ""),
     Op("set", "value"), EventOp("input"), EventOp("change"), EventOp("keyup"),
     EventOp("blur"), Op("set", "style.backgroundColor"),
     Op("set", "style.border"), Op("setAttribute", "data-ocr-filled")}

C2_NeverSubmits ==
    \A o \in hostOps : o.target \in DomIds /\ o.step \in AllowedSteps

C2_Witness ==
    /\ \E r \in Runs : Done(r) /\ runs[r].filledCount > 0
    /\ \E o \in hostOps : o.step = EventOp("blur")

\* C3: a call of performOCR in which every request failed made exactly
\* RETRY_ATTEMPTS attempts and threw the error of the last of them, which
\* is the error the run's notification carries.
C3_ThirdErrorSurfaces ==
    \A r \in Runs :
        Done(r) /\ runs[r].requests > 0 /\ runs[r].attempts = runs[r].requests
        => /\ runs[r].attempts = 3
           /\ runs[r].requests = 3
           /\ runs[r].surfaced.kind # NONE
           /\ runs[r].surfaced.attempt = 3
           /\ runs[r].surfaced = runs[r].lastErr
           /\ \A i \in NotesOf(r) :
                 notes[i].msg = "Error: " /\ notes[i].err = runs[r].surfaced
           /\ NotesOf(r) # {}

C3_Witness ==
    \E r \in Runs : Done(r) /\ runs[r].surfaced.kind = "AbortError"
                    /\ runs[r].requests = 3

\* C4 (as claimed): no run sends more than one request to the recognition
\* service.
C4_OneRequestPerTrigger == \A r \in Runs : runs[r].requests <= 1

\* C4 (amended): a run sends at most RETRY_ATTEMPTS requests, one per
\* attempt: none when no image was located, exactly one when the first
\* attempt succeeds, and one more after each failed attempt.
C4_RequestsPerTrigger ==
    \A r \in Runs :
        /\ runs[r].requests <= RETRY_ATTEMPTS
        /\ runs[r].pc \in {"fetch", "body"} => runs[r].requests = runs[r].attempts + 1
        /\ runs[r].pc = "delay" => runs[r].requests = runs[r].attempts
        /\ Done(r) /\ runs[r].imageUrl.isNull => runs[r].requests = 0
        /\ Done(r) /\ ~runs[r].imageUrl.isNull /\ runs[r].surfaced = NoErr
           => runs[r].requests = runs[r].attempts + 1
        /\ Done(r) /\ runs[r].surfaced # NoErr => runs[r].requests = runs[r].attempts

C4_Witness ==
    \E r \in Runs : Done(r) /\ runs[r].requests = 3 /\ runs[r].fill = "returned"

\* C5: a run whose locator returned no image reference ends with exactly
\* one notification, of severity error, having sent no request and called
\* neither the fill engine nor setFieldValue.
C5_NoImageNoRequest ==
    \A r \in Runs :
        Done(r) /\ runs[r].imageUrl.isNull
        => /\ runs[r].requests = 0
           /\ runs[r].fill = NONE
           /\ runs[r].attempted = <<>>
           /\ Cardinality(NotesOf(r)) = 1
           /\ TheNote(r).type = "error"
           /\ TheNote(r).msg = "No document image found"

C5_Witness ==
    \E r \in Runs : Done(r) /\ runs[r].imageUrl.isNull /\ NotesOf(r) # {}

\* C6 (as claimed): whenever the trigger is disabled by a run, the run
\* eventually ends and the trigger is enabled again.
C6_TriggerReEnabled == [](btn.disabled => <>(~btn.disabled))

\* C7: after the fill stage returned, the run's one notification is of
\* severity success, carrying the fill count, exactly if the fill count is
\* positive, and of severity warning otherwise; an alert is armed or raised
\* only for a notification of severity success.
C7_SuccessIffFilled ==
    /\ \A r \in Runs :
          Done(r) /\ runs[r].fill = "returned"
          => /\ Cardinality(NotesOf(r)) = 1
             /\ (runs[r].filledCount > 0
                 => TheNote(r).type = "success" /\ TheNote(r).n = runs[r].filledCount)
             /\ (runs[r].filledCount = 0 => TheNote(r).type = "warning")
    /\ \A i \in alerts : notes[i].type = "success"
    /\ \A i \in 1..Len(timers) :
          timers[i].kind = "alert" => notes[timers[i].n].type = "success"

C7_Witness ==
    /\ alerts # {}
    /\ \E r \in Runs : Done(r) /\ runs[r].fill = "returned" /\ runs[r].filledCount = 0

\* C8: when autofillFields returns, its count is the number of mapping
\* entries whose value is non-blank, whose target exists and whose write
\* did not throw; 16 populated keys on 16 present targets give 16, the
\* first 5 give 5.
Written(inp, i) ==
    /\ NonBlank(inp.get[KeyAt(i)])
    /\ inp.doc[DomIdAt(i)].exists
    /\ inp.doc[DomIdAt(i)].throwsOn = NONE

C8_CountIsWritten ==
    fillOut.done /\ fillOut.out.threw = NONE
    => /\ fillOut.out.filledCount =
             Cardinality({i \in 1..NKeys : Written(fillIn, i)})
       /\ fillIn = FillInput(Prefix(NKeys, Text(A)), AllOk)
          => fillOut.out.filledCount = 16
       /\ fillIn = FillInput(Prefix(5, Text(A)), AllOk)
          => fillOut.out.filledCount = 5

C8_Witness ==
    /\ fillOut.done
    /\ fillOut.out.filledCount = 15
    /\ fillOut.out.failedFields # <<>>

\* C9: the keys whose target the fill engine looks up all hold a present,
\* non-empty, not whitespace-only value, and are looked up in the order of
\* FIELD_MAPPING; when the engine returns, every such key was looked up.
C9_NonBlankInOrder ==
    fillOut.done
    => LET att == fillOut.out.attempted
       IN  /\ \A j \in 1..Len(att) : NonBlank(fillIn.get[att[j]])
           /\ \A j \in 1..Len(att) - 1 : IndexOf(att[j]) < IndexOf(att[j + 1])
           /\ fillOut.out.threw = NONE
              => \A i \in 1..NKeys :
                    NonBlank(fillIn.get[KeyAt(i)])
                    => \E j \in 1..Len(att) : att[j] = KeyAt(i)

C9_Witness ==
    /\ fillOut.done
    /\ Len(fillOut.out.attempted) = 15
    /\ \E k \in Keys : fillIn.get[k] = Text(Blank)

\* C10 (as claimed): every run settles normally, and a run in which a
\* stage raised a fault (recognition, field mapping, or the write of a
\* field) ends with a notification of severity error carrying that fault.
C10_EveryFaultNotified ==
    \A r \in Runs :
        Done(r)
        => /\ runs[r].settled = "resolved"
           /\ (runs[r].surfaced # NoErr \/ runs[r].fill = "threw"
               \/ runs[r].caught # <<>>)
              => \E i \in NotesOf(r) : notes[i].type = "error" /\ notes[i].msg = "Error: "

\* What the code does guarantee at the orchestrator boundary: every run
\* settles normally with exactly one notification; a fault that leaves
\* performOCR or autofillFields gives a notification of severity error
\* carrying that fault; a fault of one write is caught inside
\* autofillFields, which returns, and the run's notification is then of
\* severity success or warning.
BoundaryCatches ==
    \A r \in Runs :
        Done(r)
        => /\ runs[r].settled = "resolved"
           /\ Cardinality(NotesOf(r)) = 1
           /\ runs[r].surfaced # NoErr
              => /\ TheNote(r).type = "error" /\ TheNote(r).msg = "Error: "
                 /\ TheNote(r).err = runs[r].surfaced
           /\ runs[r].fill = "threw"
              => /\ TheNote(r).type = "error" /\ TheNote(r).msg = "Error: "
                 /\ TheNote(r).err.kind = "TypeError: value.trim is not a function"
           /\ runs[r].fill = "returned"
              => TheNote(r).type \in {"success", "warning"}

\* the place of an entry in a sequence (0 when it does not occur)
PlaceOf(seq, x) ==
    IF \E j \in 1..Len(seq) : seq[j] = x
    THEN CHOOSE j \in 1..Len(seq) : seq[j] = x
    ELSE 0

\* What the code does guarantee of field-level failures: when the fill
\* engine returns, every key with a non-blank value was looked up, and the
\* keys whose target is missing or whose write threw are exactly the keys
\* of the failed-fields list, in mapping order.
FieldFailuresAccumulate ==
    fillOut.done /\ fillOut.out.threw = NONE
    => LET out == fillOut.out
       IN  /\ \A i \in 1..NKeys :
                 NonBlank(fillIn.get[KeyAt(i)])
                 => /\ PlaceOf(out.attempted, KeyAt(i)) > 0
                    /\ PlaceOf(out.failedFields, KeyAt(i)) > 0
                       <=> ~Written(fillIn, i)
           /\ \A j \in 1..Len(out.failedFields) :
                 NonBlank(fillIn.get[out.failedFields[j]])

\* C11 (as claimed): a missing target or a faulting write does not end the
\* fill stage, the key is put on the failed-fields list, and once all
\* entries have been attempted the failed fields are reported together:
\* what the engine puts out after its loop names the keys of the list.
C11_FailedFieldsReported ==
    /\ FieldFailuresAccumulate
    /\ fillOut.done /\ fillOut.out.threw = NONE /\ fillOut.out.failedFields # <<>>
       => LET log == fillOut.out.log
              from == PlaceOf(log, Log("log", "=== AUTOFILL SUMMARY ===", <<>>, 0))
          IN  /\ from > 0
              /\ \E j \in from..Len(log) : log[j].arg = fillOut.out.failedFields

\* the armed retry delays of a run
DelaysOf(r) ==
    {i \in 1..Len(timers) : timers[i].kind = "delay" /\ timers[i].run = r}

\* C12: whatever failed an attempt (transport, timeout, a non-success
\* status, an unreadable body, a body with an error indicator), the failure
\* is handled the same way: it consumes exactly one attempt; below the
\* ceiling it is followed by the one retry delay of that attempt and is
\* not surfaced; at the ceiling it is the error the run ends with.
C12_FailureKindsAlike ==
    \A r \in Runs :
        runs[r].lastErr.kind # NONE
        => /\ runs[r].lastErr.attempt = runs[r].attempts
           /\ runs[r].attempts <= RETRY_ATTEMPTS
           /\ runs[r].pc = "delay"
              => /\ runs[r].attempts < RETRY_ATTEMPTS
                 /\ Cardinality(DelaysOf(r)) = 1
                 /\ \A i \in DelaysOf(r) :
                       timers[i].ms = RETRY_DELAY * runs[r].attempts
           /\ runs[r].attempts < RETRY_ATTEMPTS
              => /\ runs[r].surfaced = NoErr
                 /\ runs[r].requests \in {runs[r].attempts, runs[r].attempts + 1}
           /\ runs[r].attempts = RETRY_ATTEMPTS
              => /\ Done(r)
                 /\ runs[r].requests = RETRY_ATTEMPTS
                 /\ runs[r].surfaced = runs[r].lastErr
                 /\ TheNote(r).type = "error"
                 /\ TheNote(r).err = runs[r].lastErr

C12_Witness ==
    \E r \in Runs :
        /\ Done(r)
        /\ runs[r].surfaced.kind = "data.error"
        /\ runs[r].attempts = RETRY_ATTEMPTS

\* the address begins with a scheme: a ':' before any '/' or '#', after at
\* least one character, the first of them not a '.'
HasScheme(s) ==
    \E i \in 2..Len(s) :
        /\ s[i] = ":"
        /\ s[1] # "."
        /\ \A j \in 1..(i - 1) : s[j] \notin {"/", "#", ":"}

\* the canonical address the claim gives for an address of each form
Canonical(src, href, origin) ==
    LET clean == BeforeHash(src)
    IN  IF HasScheme(src) THEN clean
        ELSE IF StartsWith(src, <<"/">>) THEN origin \o clean
        ELSE IF StartsWith(src, <<".", "/">>)
             THEN basePath(href) \o SubSeq(clean, 3, Len(clean))
             ELSE basePath(href) \o clean

FromDesignated ==
    /\ imgOut.done
    /\ page.desig.tag = "IMG"
    /\ page.desig.src # <<>>

\* C13 (as claimed): for the address of the designated image in each form
\* the locator returns the canonical address: absolute unchanged,
\* root-relative after the origin, dot-relative after the page's directory
\* with './' dropped, any other after the page's directory, and no fragment.
C13_CanonicalAddress ==
    FromDesignated
    => /\ ~imgOut.ref.isNull
       /\ imgOut.ref.url = Canonical(page.desig.src, page.href, page.origin)
       /\ \A i \in 1..Len(imgOut.ref.url) : imgOut.ref.url[i] # "#"

\* What the code does guarantee: the result has no fragment, and it is the
\* canonical address when the address is absolute with a scheme that begins
\* with http, or is relative and does not begin with the letters http.
CanonicalForHttp ==
    FromDesignated
    => /\ ~imgOut.ref.isNull
       /\ \A i \in 1..Len(imgOut.ref.url) : imgOut.ref.url[i] # "#"
       /\ HasScheme(page.desig.src) = StartsWith(page.desig.src, HTTP)
          => imgOut.ref.url = Canonical(page.desig.src, page.href, page.origin)

\* the state of a target input the claims speak of
FieldState(f) ==
    [value |-> f.value, attrs |-> f.attrs, handlers |-> f.handlers,
     bg |-> f.bg, border |-> f.border, filled |-> f.filled]

\* C14: filling the same values into the same targets a second time
\* leaves every target input (value, interceptor attributes and handlers,
\* marker styling and marker attribute) as the first fill left it.
C14_FillIdempotent ==
    fillOut.twice
    => \A id \in DomIds :
          FieldState(fillOut.re.doc[id]) = FieldState(fillOut.out.doc[id])

C14_Witness ==
    /\ fillOut.twice
    /\ fillOut.re.filledCount = 15
    /\ \E id \in DomIds :
          /\ fillOut.re.doc[id].filled
          /\ fillOut.re.doc[id].value = A
          /\ fillIn.doc[id].value = <<>>

\* the steps one fill performed on a target, in the order performed
StepsOn(id) ==
    LET on == SelectSeq(fillOut.out.ops, LAMBDA o : o.target = id)
    IN  [j \in 1..Len(on) |-> on[j].step]

EventsOf(steps) == SelectSeq(steps, LAMBDA st : st.op = "dispatchEvent")

Interceptors == {"onpaste", "onselectstart"}
MarkerSteps ==
    {Op("set", "style.backgroundColor"), Op("set", "style.border"),
     Op("setAttribute", "data-ocr-filled")}
FourEvents == <<"input", "change", "keyup", "blur">>

\* C15: in one fill of a target the interceptors are removed before the
\* input is focused, the focus comes before the value is assigned, the
\* value before every event, the events are input, change, keyup, blur in
\* this order, each bubbling and cancelable, and the marker is applied
\* after the fourth event; a completed fill dispatched exactly the four.
C15_StepOrder ==
    fillOut.done
    => \A id \in DomIds :
          LET q == StepsOn(id)
              ev == EventsOf(q)
              focus == PlaceOf(q, Op("focus", ""))
              assign == PlaceOf(q, Op("set", "value"))
          IN  /\ \A j \in 1..Len(q) :
                    /\ q[j].arg \in Interceptors => focus = 0 \/ j < focus
                    /\ q[j] = Op("focus", "")
                       => \A a \in Interceptors :
                             /\ PlaceOf(q, Op("removeAttribute", a)) \in 1..(j - 1)
                             /\ PlaceOf(q, Op("set", a)) \in 1..(j - 1)
                    /\ q[j] = Op("set", "value") => focus \in 1..(j - 1)
                    /\ q[j].op = "dispatchEvent" => assign \in 1..(j - 1)
                    /\ q[j] \in MarkerSteps
                       => PlaceOf(q, EventOp("blur")) \in 1..(j - 1)
              /\ Len(ev) <= 4
              /\ \A k \in 1..Len(ev) : ev[k] = EventOp(FourEvents[k])
              /\ \A k \in 1..Len(ev) : ev[k].bubbles /\ ev[k].cancelable
              /\ fillOut.out.doc[id].filled /\ ~fillIn.doc[id].filled
                 => Len(ev) = 4 /\ \A m \in MarkerSteps : PlaceOf(q, m) > 0

C15_Witness ==
    /\ fillOut.done
    /\ \E id \in DomIds :
          Len(EventsOf(StepsOn(id))) = 4 /\ fillOut.out.doc[id].filled
    /\ \E id \in DomIds :
          Len(EventsOf(StepsOn(id))) = 0 /\ PlaceOf(StepsOn(id), Op("set", "value")) > 0

\* C16 (as claimed): once a fill of a target has returned, the target's
\* paste handler is the handler it had before the fill.
C16_PasteHandlerRestored ==
    fillOut.done
    => \A i \in 1..NKeys :
          PlaceOf(fillOut.out.attempted, KeyAt(i)) > 0
          /\ PlaceOf(fillOut.out.caught, KeyAt(i)) = 0
          => ("onpaste" \in fillOut.out.doc[DomIdAt(i)].handlers)
             = ("onpaste" \in fillIn.doc[DomIdAt(i)].handlers)

\* C17 (as claimed): whenever a partial update has removed the trigger
\* button, the button is eventually in the document again.
C17_TriggerComesBack == [](~btn.present => <>btn.present)

C19_LinearBackoff ==
    /\ \A i \in 1..Len(timers) :
          timers[i].kind = "delay"
          => LET r == timers[i].run
             IN  /\ runs[r].pc = "delay"
                 /\ timers[i].n = runs[r].attempts
                 /\ timers[i].n \in 1..(RETRY_ATTEMPTS - 1)
                 /\ timers[i].ms = RETRY_DELAY * timers[i].n
                 /\ timers[i].n = 1 => timers[i].ms = 1000
                 /\ timers[i].n = 2 => timers[i].ms = 2000
    /\ \A r \in Runs :
          /\ runs[r].pc = "delay" => DelaysOf(r) # {}
          /\ runs[r].attempts = RETRY_ATTEMPTS
             => DelaysOf(r) = {} /\ Done(r) /\ runs[r].surfaced # NoErr

C19_Witness ==
    \E i \in 1..Len(timers) :
        /\ timers[i].kind = "delay"
        /\ timers[i].ms = 2000
        /\ runs[timers[i].run].lastErr.kind = "HTTP status"

\* the run is inside a recognition attempt: its request was sent and no
\* parsed result or failure has come of it yet
InAttempt(r) == r <= Len(runs) /\ runs[r].pc \in {"fetch", "body"}

\* C20 (as claimed): every recognition attempt eventually ends, as a
\* success or as a failure: an attempt that produces no parsed result is
\* ended by its timeout.
C20_AttemptEnds == \A r \in 1..MaxRuns : [](InAttempt(r) => <>(~InAttempt(r)))

\* C21: a request that ended by abort was aborted by the timer armed for
\* its own attempt of its own run; no timer of another attempt or run has
\* aborted it.
C21_AbortScopedToAttempt ==
    \A r \in Runs :
        /\ runs[r].abortedBy # <<0, 0>>
           => /\ runs[r].abortedBy[1] = r
              /\ runs[r].abortedBy[2] \in 1..runs[r].attempts
        /\ runs[r].lastErr.kind = "AbortError"
           => runs[r].abortedBy = <<r, runs[r].lastErr.attempt>>

\* a timer left armed by a failed attempt of the finished run is due while
\* a request of the next run is in flight, in an attempt after one of its
\* own that failed
C21_Witness ==
    /\ Len(runs) = 2
    /\ runs[2].pc = "fetch"
    /\ runs[2].inflight = 2
    /\ \E i \in 1..Len(timers) :
          CanFire(i) /\ timers[i].kind = "abort" /\ timers[i].run = 1
    /\ \E i \in 1..Len(timers) :
          timers[i] = Timer("abort", 2, 1, FETCH_TIMEOUT)

\* C22: at most one request is in flight; the request in flight is that of
\* attempt i + 1 exactly when i attempts have failed and i retry delays
\* have elapsed; while a delay is awaited no request is in flight; and a
\* call whose attempt succeeded has sent no request after it and has no
\* delay armed.
C22_AttemptsSequential ==
    /\ Cardinality({r \in Runs : InAttempt(r)}) <= 1
    /\ \A r \in Runs :
          /\ InAttempt(r)
             => /\ runs[r].inflight = runs[r].attempts + 1
                /\ runs[r].requests = runs[r].attempts + 1
                /\ runs[r].waited = runs[r].attempts
                /\ DelaysOf(r) = {}
          /\ runs[r].pc = "delay"
             => /\ runs[r].inflight = 0
                /\ runs[r].requests = runs[r].attempts
                /\ runs[r].waited = runs[r].attempts - 1
          /\ Done(r) /\ runs[r].requests > 0 /\ runs[r].surfaced = NoErr
             => /\ runs[r].requests = runs[r].attempts + 1
                /\ runs[r].waited = runs[r].attempts
                /\ runs[r].inflight = 0
                /\ DelaysOf(r) = {}

C22_Witness ==
    \E r \in Runs :
        /\ Done(r)
        /\ runs[r].waited = 2
        /\ runs[r].requests = 3
        /\ runs[r].surfaced = NoErr

NoFragment(u) == \A i \in 1..Len(u) : u[i] # "#"

\* C23 (as claimed): the image reference the locator returns, which the
\* run passes unchanged to the recognition request, is absolute (it begins
\* with a scheme) and has no '#', whether it came from the designated
\* element or from a fallback query.
C23_ReferenceAbsolute ==
    imgOut.done /\ ~imgOut.ref.isNull /\ imgOut.ref.url # <<>>
    => /\ HasScheme(imgOut.ref.url)
       /\ NoFragment(imgOut.ref.url)

\* What the code does guarantee of the reference on both paths: it has no
\* fragment.
ReferenceHasNoFragment ==
    imgOut.done /\ ~imgOut.ref.isNull => NoFragment(imgOut.ref.url)

\* the designated element exists, is an image and has an address
Designated == page.desig.tag = "IMG" /\ page.desig.src # <<>>

\* the fallback queries whose match has an address
WithAddress ==
    {j \in 1..Len(page.fallback) :
        page.fallback[j].found /\ page.fallback[j].src # <<>>}

EndsWith(u, tail) ==
    Len(u) >= Len(tail) /\ SubSeq(u, Len(u) - Len(tail) + 1, Len(u)) = tail

\* the address without its fragment and without a leading './'
Core(src) ==
    LET clean == BeforeHash(src)
    IN  IF StartsWith(clean, <<".", "/">>) THEN SubSeq(clean, 3, Len(clean))
        ELSE clean

\* C24: the locator's result comes from the designated element whenever
\* that exists, is an image and has an address; otherwise from the first
\* of the fallback queries (.jpg, .jpeg, .png, then the partial identifier)
\* whose match has an address; and it is NotFound exactly when there is
\* neither.
C24_LocatorOrder ==
    /\ fallbackSelectors =
          <<"img[src*=.jpg]", "img[src*=.jpeg]", "img[src*=.png]", "[id*=Frame5] img">>
    /\ imgOut.done
       => /\ Designated
             => ~imgOut.ref.isNull /\ EndsWith(imgOut.ref.url, Core(page.desig.src))
          /\ ~Designated /\ WithAddress # {}
             => LET first == CHOOSE j \in WithAddress : \A k \in WithAddress : j <= k
                IN  imgOut.ref = Url(BeforeHash(page.fallback[first].src))
          /\ imgOut.ref.isNull <=> ~Designated /\ WithAddress = {}

C24_Witness ==
    /\ imgOut.done
    /\ page.desig.tag = "IFRAME"
    /\ page.desig.src # <<>>
    /\ page.fallback[1] = Match(<<>>)
    /\ Cardinality(WithAddress) = 1
    /\ imgOut.ref = Url(BeforeHash(IMG_ABS))

\* the alert timers armed and the alerts raised for notifications of run r
AcksOf(r) ==
    {i \in 1..Len(timers) : timers[i].kind = "alert" /\ timers[i].run = r}
    \cup {i \in alerts : notes[i].run = r}

\* C25: a run whose recognition failed (the third attempt failed, or the
\* service returned nothing usable) did not call the fill engine and wrote
\* no field, raised exactly one notification, of severity error, and has
\* no success alert armed or raised.
C25_RecognitionFailureAborts ==
    \A r \in Runs :
        Done(r) /\ (runs[r].surfaced # NoErr
                    \/ (runs[r].requests > 0 /\ runs[r].fill = NONE))
        => /\ runs[r].fill = NONE
           /\ runs[r].attempted = <<>>
           /\ runs[r].filledCount = 0
           /\ Cardinality(NotesOf(r)) = 1
           /\ TheNote(r).type = "error"
           /\ AcksOf(r) = {}

C25_Witness ==
    /\ Len(runs) = 2
    /\ Done(2)
    /\ runs[2].surfaced.kind = "TypeError: Failed to fetch"
    /\ runs[2].requests = RETRY_ATTEMPTS
    /\ \E id \in DomIds : doc[id].filled

\* the notification type a settled run's own record determines
OutcomeOf(run) ==
    IF run.requests = 0 \/ run.surfaced # NoErr \/ run.fill # "returned"
    THEN "error"
    ELSE IF run.filledCount = 0 THEN "warning" ELSE "success"

\* C26: no run state is carried across runs. While a run is in progress the
\* image reference it uses is the one the locator finds on the page of that
\* run, its first request is made with no failure counted and no wait made,
\* a run that surfaces a recognition error has made all RETRY_ATTEMPTS
\* requests whatever the runs before it did, and the notification of a
\* finished run is the one its own record determines.
C26_NoStateAcrossRuns ==
    \A r \in Runs :
        /\ Executing(r) => /\ ~extractImage(page).isNull
                           /\ runs[r].imageUrl = extractImage(page)
        /\ runs[r].requests \in 0..RETRY_ATTEMPTS
        /\ runs[r].attempts \in 0..RETRY_ATTEMPTS
        /\ runs[r].requests = 1 /\ InAttempt(r)
           => runs[r].attempts = 0 /\ runs[r].waited = 0
                                   /\ runs[r].lastErr = NoErr
        /\ Done(r) /\ runs[r].surfaced # NoErr
           => runs[r].requests = RETRY_ATTEMPTS
              /\ runs[r].attempts = RETRY_ATTEMPTS
        /\ Done(r) => TheNote(r).type = OutcomeOf(runs[r])

\* C26 witness: the second run made its three requests and surfaced the
\* third failure while the abort timer of the first run's third request,
\* which failed too, is still armed
C26_Witness ==
    /\ Len(runs) = 2
    /\ Done(2)
    /\ runs[2].requests = RETRY_ATTEMPTS
    /\ runs[2].surfaced # NoErr
    /\ \E i \in 1..Len(timers) :
           timers[i].kind = "abort" /\ timers[i].run = 1
                                    /\ timers[i].n = RETRY_ATTEMPTS
    /\ notes[1].type = "error"

\* the keys of the entries the engine counted as filled
FilledKeys(out) == {out.filledFields[j][1] : j \in 1..Len(out.filledFields)}
FailedKeys(out) == {out.failedFields[j] : j \in 1..Len(out.failedFields)}

\* the partition of the non-blank keys one return of the engine makes
Partitioned(get, out) ==
    LET nonBlank == {k \in Keys : NonBlank(get[k])}
    IN  /\ FilledKeys(out) \cap FailedKeys(out) = {}
        /\ FilledKeys(out) \cup FailedKeys(out) = nonBlank
        /\ Cardinality(FilledKeys(out)) = out.filledCount
        /\ Cardinality(FailedKeys(out)) = Len(out.failedFields)
        /\ out.filledCount + Len(out.failedFields) = Cardinality(nonBlank)
        /\ out.filledCount <= NKeys

\* C27: when the fill engine returns, every key with a non-blank value is
\* either counted as filled or on the failed-fields list, never both and
\* never neither: the fill count plus the length of the failed-fields list
\* is the number of non-blank keys, and the fill count is at most 16.
C27_CountedOrFailed ==
    /\ NKeys = 16
    /\ fillOut.done /\ fillOut.out.threw = NONE
       => Partitioned(fillIn.get, fillOut.out)
    /\ fillOut.twice /\ fillOut.re.threw = NONE
       => Partitioned(fillIn.get, fillOut.re)

\* C27 witness: all 16 keys are non-blank, 15 were filled and the write of
\* one threw
C27_Witness ==
    /\ fillOut.done
    /\ fillOut.out.threw = NONE
    /\ \A k \in Keys : NonBlank(fillIn.get[k])
    /\ fillOut.out.filledCount = 15
    /\ Len(fillOut.out.failedFields) = 1
    /\ fillOut.out.caught = fillOut.out.failedFields

\* the banner b leaves the page in this step because a later notification
\* replaced it, or because the removal timer of b itself fired
RemovedInTurn(b) ==
    \/ Len(notes') > Len(notes)
    \/ \E i \in 1..Len(timers) :
          /\ CanFire(i)
          /\ timers[i].kind = "remove"
          /\ timers[i].n = b
          /\ timers' = Fired(i).timers

\* C28: at most one notification banner is on the page in every reachable
\* state, the banner on the page is that of the latest notification, and a
\* banner leaves the page only when a later notification replaces it or
\* when its own removal timer fires: the timers of an earlier banner never
\* remove the banner of a later notification.
C28_OneBanner ==
    /\ [](Cardinality(banners) <= 1 /\ banners \subseteq {Len(notes)})
    /\ [][\A b \in banners : b \notin banners' => RemovedInTurn(b)]_vars

\* C28 witness: the banner of the second notification is on the page while
\* the removal timer of the first banner is still armed
C28_Witness ==
    /\ banners = {2}
    /\ \E i \in 1..Len(timers) :
          timers[i].kind = "remove" /\ timers[i].n = 1 /\ CanFire(i)

====
